---- MODULE Spec2Model ----
(***************************************************************************)
(* Model of cargo-edit's src/fetch.rs: the registry index lookup           *)
(* (get_latest_dependency, fuzzy_query_registry_index), the index          *)
(* synchronizer (update_registry_index), the version selector              *)
(* (read_latest_version) and the path deriver (gen_fuzzy_crate_names,      *)
(* summary_raw_path).                                                      *)
(*                                                                         *)
(* Text is modelled as a sequence of one-character strings, so that        *)
(* slicing, byte replacement and concatenation are what the code does.     *)
(***************************************************************************)
EXTENDS Integers, Sequences, FiniteSets, TLC

VARIABLES
    sel,         \* version selector: the record list, the flag, the last two results
    fz,          \* fuzzy names: the input name and the variant sequence of the lookup
    sp,          \* path deriver: the input name and the derived path
    q,           \* index reader: the requested name, the index tree, the outcome
    cargoIsTest, \* whether CARGO_IS_TEST is set in the process environment
    mirror,      \* per registry, what lies at its cache path on disk
    remote,      \* per registry, the tree at the tip of the remote index
    last,        \* the last top-level call: operation, arguments, I/O done, result
    prev         \* the call before it

vars == <<sel, fz, sp, q, cargoIsTest, mirror, remote, last, prev>>

\* The value of a part of the state that a specification leaves out.
Idle == [on |-> FALSE]

(***************************************************************************)
(* Text helpers                                                            *)
(***************************************************************************)

AsciiUpper ==
    <<"A","B","C","D","E","F","G","H","I","J","K","L","M",
      "N","O","P","Q","R","S","T","U","V","W","X","Y","Z">>

AsciiLower ==
    <<"a","b","c","d","e","f","g","h","i","j","k","l","m",
      "n","o","p","q","r","s","t","u","v","w","x","y","z">>

\* u8::to_ascii_lowercase: 'A'..'Z' map to 'a'..'z', every other byte to itself.
ToAsciiLowercaseChar(c) ==
    IF \E i \in 1..26 : AsciiUpper[i] = c
    THEN AsciiLower[CHOOSE i \in 1..26 : AsciiUpper[i] = c]
    ELSE c

\* str::to_ascii_lowercase
ToAsciiLowercase(s) == [i \in 1..Len(s) |-> ToAsciiLowercaseChar(s[i])]

Digits == <<"0","1","2","3","4","5","6","7","8","9">>

\* Display of an unsigned integer: its decimal digits.
RECURSIVE DecStr(_)
DecStr(n) ==
    IF n < 10 THEN <<Digits[n + 1]>>
    ELSE DecStr(n \div 10) \o <<Digits[(n % 10) + 1]>>

\* All sequences over S of length 0..n.
SeqsUpTo(S, n) == UNION {[1..k -> S] : k \in 0..n}

(***************************************************************************)
(* semver::Version as fetch.rs uses it (is_prerelease, Ord, Display)       *)
(***************************************************************************)

\* The alphanumeric identifiers of the model, in ASCII order.
AlphaIds == <<"alpha", "beta", "rc">>

AlphaRank(t) == CHOOSE i \in 1..Len(AlphaIds) : AlphaIds[i] = t

Num(n) == [numeric |-> TRUE, n |-> n, text |-> ""]
Alpha(t) == [numeric |-> FALSE, n |-> 0, text |-> t]

Ver(major, minor, patch, pre, build) ==
    [major |-> major, minor |-> minor, patch |-> patch, pre |-> pre, build |-> build]

CmpNat(a, b) == IF a < b THEN -1 ELSE IF a > b THEN 1 ELSE 0

\* Ord of semver::Identifier: Numeric sorts before AlphaNumeric; two of a kind
\* compare by value.
CmpIdentifier(a, b) ==
    IF a.numeric /\ b.numeric THEN CmpNat(a.n, b.n)
    ELSE IF a.numeric THEN -1
    ELSE IF b.numeric THEN 1
    ELSE CmpNat(AlphaRank(a.text), AlphaRank(b.text))

\* Ord of Vec<Identifier>: lexicographic, a proper prefix sorts first.
RECURSIVE CmpIdentifiers(_, _)
CmpIdentifiers(p, r) ==
    IF p = <<>> /\ r = <<>> THEN 0
    ELSE IF p = <<>> THEN -1
    ELSE IF r = <<>> THEN 1
    ELSE LET c == CmpIdentifier(Head(p), Head(r))
         IN  IF c # 0 THEN c ELSE CmpIdentifiers(Tail(p), Tail(r))

\* Ord of semver::Version: major, minor, patch, then the prerelease tag, where
\* no tag outranks any tag; the build metadata takes no part.
CmpVersion(a, b) ==
    IF a.major # b.major THEN CmpNat(a.major, b.major)
    ELSE IF a.minor # b.minor THEN CmpNat(a.minor, b.minor)
    ELSE IF a.patch # b.patch THEN CmpNat(a.patch, b.patch)
    ELSE IF a.pre = <<>> /\ b.pre = <<>> THEN 0
    ELSE IF a.pre = <<>> THEN 1
    ELSE IF b.pre = <<>> THEN -1
    ELSE CmpIdentifiers(a.pre, b.pre)

IdentifierStr(a) == IF a.numeric THEN DecStr(a.n) ELSE <<a.text>>

RECURSIVE JoinIdentifiers(_)
JoinIdentifiers(p) ==
    IF p = <<>> THEN <<>>
    ELSE IF Len(p) = 1 THEN IdentifierStr(p[1])
    ELSE IdentifierStr(p[1]) \o <<".">> \o JoinIdentifiers(Tail(p))

\* Display of semver::Version: major.minor.patch[-pre][+build]
VersionToString(v) ==
    DecStr(v.major) \o <<".">> \o DecStr(v.minor) \o <<".">> \o DecStr(v.patch)
    \o (IF v.pre = <<>> THEN <<>> ELSE <<"-">> \o JoinIdentifiers(v.pre))
    \o (IF v.build = <<>> THEN <<>> ELSE <<"+">> \o JoinIdentifiers(v.build))

\* semver::Version::is_prerelease
IsPrerelease(v) == v.pre # <<>>

(***************************************************************************)
(* Results                                                                 *)
(***************************************************************************)

\* Dependency::new(name).set_version(version)
Dependency(name, version) == [name |-> name, version |-> version]

Ok(value) == [ok |-> TRUE, value |-> value, err |-> "", arg |-> <<>>]
Err(kind) == [ok |-> FALSE, value |-> <<>>, err |-> kind, arg |-> <<>>]
ErrWith(kind, arg) == [ok |-> FALSE, value |-> <<>>, err |-> kind, arg |-> arg]

\* The result slot of an operation that has not been called yet.
NotCalled == [ok |-> FALSE, value |-> <<>>, err |-> "not called", arg |-> <<>>]
Called(r) == r.err # "not called"

\* The record of a top-level call, before any call was made.
NoCall ==
    [op |-> "none", registry |-> "", name |-> <<>>, flag |-> FALSE, fault |-> "none",
     io |-> {}, res |-> NotCalled]

\* What is kept of the call before the last: which operation, on which registry,
\* and whether it succeeded.
Summary(call) == [op |-> call.op, registry |-> call.registry, ok |-> call.res.ok]

(***************************************************************************)
(* Version selector                                                        *)
(***************************************************************************)

\* struct CrateVersion { name, vers, yanked }
CrateVersion(name, version, yanked) ==
    [name |-> name, version |-> version, yanked |-> yanked]

version_is_stable(v) == ~IsPrerelease(v.version)

RECURSIVE Filter(_, _, _)
Filter(versions, flag_allow_prerelease, i) ==
    IF i > Len(versions) THEN <<>>
    ELSE LET v == versions[i]
             keep == (flag_allow_prerelease \/ version_is_stable(v)) /\ ~v.yanked
         IN  (IF keep THEN <<v>> ELSE <<>>)
             \o Filter(versions, flag_allow_prerelease, i + 1)

\* Iterator::max_by_key: of several maximal elements the last one is returned.
RECURSIVE MaxByKeyFrom(_, _, _)
MaxByKeyFrom(s, best, i) ==
    IF i > Len(s) THEN best
    ELSE MaxByKeyFrom(s,
                      IF CmpVersion(s[i].version, best.version) >= 0 THEN s[i] ELSE best,
                      i + 1)

\* A selector that forgets the yanked filter (line 81).
read_latest_version_keeps_yanked(versions, flag_allow_prerelease) ==
    LET kept == SelectSeq(versions,
                          LAMBDA v : flag_allow_prerelease \/ version_is_stable(v))
    IN  IF kept = <<>> THEN Err("NoVersionsAvailable")
        ELSE LET latest == MaxByKeyFrom(kept, kept[1], 2)
             IN  Ok(Dependency(latest.name, VersionToString(latest.version)))

\* A selector that takes the first record left instead of the maximum (line 82).
read_latest_version_takes_first(versions, flag_allow_prerelease) ==
    LET kept == Filter(versions, flag_allow_prerelease, 1)
    IN  IF kept = <<>> THEN Err("NoVersionsAvailable")
        ELSE Ok(Dependency(kept[1].name, VersionToString(kept[1].version)))

read_latest_version(versions, flag_allow_prerelease) ==
    LET kept == Filter(versions, flag_allow_prerelease, 1)
    IN  IF kept = <<>> THEN Err("NoVersionsAvailable")
        ELSE LET latest == MaxByKeyFrom(kept, kept[1], 2)
             IN  Ok(Dependency(latest.name, VersionToString(latest.version)))

(***************************************************************************)
(* SpecSelect: read_latest_version on every record list within the bounds, *)
(* called again on reorderings of the same list.                           *)
(***************************************************************************)

MaxVersions == 2

Foo == <<"f","o","o">>
FooUpper == <<"F","o","o">>

VersionPool ==
    { Ver(0, 5, 0, <<>>, <<>>),
      Ver(0, 5, 1, <<>>, <<>>),
      Ver(0, 6, 0, <<Alpha("alpha")>>, <<>>),
      Ver(0, 6, 0, <<Alpha("alpha"), Num(1)>>, <<>>),
      Ver(0, 6, 0, <<Num(1)>>, <<>>),
      Ver(0, 6, 0, <<>>, <<>>),
      Ver(0, 6, 0, <<>>, <<Num(1)>>),
      Ver(1, 0, 0, <<Alpha("beta")>>, <<>>) }

\* Every version under the requested name, yanked or not, and two records under
\* another spelling of the name (what a fuzzy match yields) that tie with them.
RecordPool ==
    { CrateVersion(Foo, v, y) : v \in VersionPool, y \in BOOLEAN }
    \cup { CrateVersion(FooUpper, v, FALSE) :
              v \in {Ver(0, 6, 0, <<>>, <<>>), Ver(0, 6, 0, <<>>, <<Num(1)>>)} }

Permute(s, p) == [i \in 1..Len(s) |-> s[p[i]]]

Permutations1(n) == {p \in [1..n -> 1..n] : \A i, j \in 1..n : p[i] = p[j] => i = j}

InitSelect ==
    /\ \E versions \in SeqsUpTo(RecordPool, MaxVersions), flag \in BOOLEAN :
          sel = [on |-> TRUE, versions |-> versions, flag |-> flag, perm |-> <<>>,
                 res |-> NotCalled, prev |-> NotCalled]
    /\ fz = Idle /\ sp = Idle /\ q = Idle
    /\ cargoIsTest = FALSE /\ mirror = Idle /\ remote = Idle
    /\ last = NoCall /\ prev = Summary(NoCall)

\* One call of read_latest_version on a reordering of the list (the identity is one).
ReadLatestVersion ==
    /\ \E p \in Permutations1(Len(sel.versions)) :
          LET versions == Permute(sel.versions, p)
          IN  sel' = [on |-> TRUE,
                      versions |-> versions,
                      flag |-> sel.flag,
                      perm |-> p,
                      res |-> read_latest_version(versions, sel.flag),
                      prev |-> sel.res]
    /\ UNCHANGED <<fz, sp, q, cargoIsTest, mirror, remote, last, prev>>

NextSelect == ReadLatestVersion

SpecSelect == InitSelect /\ [][NextSelect]_vars

\* Semantic-version precedence (semver.org, item 11), stated on its own.
IdentifierLess(a, b) ==
    \/ a.numeric /\ b.numeric /\ a.n < b.n
    \/ a.numeric /\ ~b.numeric
    \/ ~a.numeric /\ ~b.numeric /\ AlphaRank(a.text) < AlphaRank(b.text)

PreLess(p, r) ==
    \/ p # <<>> /\ r = <<>>
    \/ /\ p # <<>> /\ r # <<>>
       /\ \E k \in 1..(Len(r)) :
             /\ \A i \in 1..(k - 1) : i <= Len(p) /\ p[i] = r[i]
             /\ \/ Len(p) = k - 1
                \/ Len(p) >= k /\ IdentifierLess(p[k], r[k])

Precedes(a, b) ==
    \/ a.major < b.major
    \/ a.major = b.major /\ a.minor < b.minor
    \/ a.major = b.major /\ a.minor = b.minor /\ a.patch < b.patch
    \/ a.major = b.major /\ a.minor = b.minor /\ a.patch = b.patch /\ PreLess(a.pre, b.pre)

\* The records the reference keeps: not yanked, and no prerelease unless allowed.
Remaining(versions, flag) ==
    {i \in 1..Len(versions) :
        ~versions[i].yanked /\ (flag \/ versions[i].version.pre = <<>>)}

\* C1: read_latest_version drops every yanked record and, unless allow_prerelease,
\* every prerelease record; with nothing left it fails with NoVersionsAvailable,
\* otherwise it returns the name and the version of a remaining record that no
\* remaining record precedes-strictly-above (a maximum under semver precedence).
C1_SelectMatchesReference ==
    sel.on /\ Called(sel.res) =>
        LET rem == Remaining(sel.versions, sel.flag)
        IN  IF rem = {} THEN sel.res = Err("NoVersionsAvailable")
            ELSE /\ sel.res.ok
                 /\ \E i \in rem :
                       /\ sel.res.value.name = sel.versions[i].name
                       /\ sel.res.value.version = VersionToString(sel.versions[i].version)
                       /\ \A j \in rem :
                             ~Precedes(sel.versions[i].version, sel.versions[j].version)

\* A call that returned a record although a yanked record of higher precedence and
\* a disallowed prerelease were in the list.
C1_Witness ==
    /\ sel.on /\ Called(sel.res) /\ sel.res.ok /\ ~sel.flag
    /\ \E i, j \in 1..Len(sel.versions) :
          /\ i \in Remaining(sel.versions, sel.flag)
          /\ sel.res.value.version = VersionToString(sel.versions[i].version)
          /\ sel.versions[j].yanked
          /\ Precedes(sel.versions[i].version, sel.versions[j].version)

\* The text of a version up to its build metadata.
RECURSIVE StripBuild(_)
StripBuild(s) ==
    IF s = <<>> \/ Head(s) = "+" THEN <<>> ELSE <<Head(s)>> \o StripBuild(Tail(s))

PATTERN == {"-", "_"}

\* .take(10): at most this many separator positions are varied.
WildcardCap == 10

Min(a, b) == IF a < b THEN a ELSE b

\* The positions of the name holding a byte of PATTERN, in order, the first
\* WildcardCap of them.
WildcardIndexs(crate_name) ==
    LET all == SelectSeq([i \in 1..Len(crate_name) |-> i],
                         LAMBDA i : crate_name[i] \in PATTERN)
    IN  SubSeq(all, 1, Min(WildcardCap, Len(all)))

\* The bytes after the inner loop of the iteration for `mask`: every wildcard
\* position is overwritten in each iteration, '-' where the mask bit is set and
\* '_' where it is not, and no other position is ever written.
MaskedBytes(crate_name, wildcard_indexs, mask) ==
    [i \in 1..Len(crate_name) |->
        IF \E j \in 1..Len(wildcard_indexs) : wildcard_indexs[j] = i
        THEN LET j == CHOOSE j \in 1..Len(wildcard_indexs) : wildcard_indexs[j] = i
             IN  IF (mask \div (2 ^ (j - 1))) % 2 = 1 THEN "-" ELSE "_"
        ELSE crate_name[i]]

gen_fuzzy_crate_names(crate_name) ==
    LET wildcard_indexs == WildcardIndexs(crate_name)
    IN  IF wildcard_indexs = <<>> THEN <<crate_name>>
        ELSE [m \in 1..(2 ^ Len(wildcard_indexs)) |->
                 MaskedBytes(crate_name, wildcard_indexs, m - 1)]

\* The variant sequence without the promotion of the exact name.
FuzzyNamesUnpromoted(crate_name) == gen_fuzzy_crate_names(crate_name)

\* Lines 297-301 of fuzzy_query_registry_index: the variants, with the first entry
\* equal to the requested name swapped to the front.
FuzzyNames(crate_name) ==
    LET names == gen_fuzzy_crate_names(crate_name)
    IN  IF \E i \in 1..Len(names) : names[i] = crate_name
        THEN LET index == CHOOSE i \in 1..Len(names) :
                              /\ names[i] = crate_name
                              /\ \A j \in 1..(i - 1) : names[j] # crate_name
             IN  [i \in 1..Len(names) |->
                     IF i = 1 THEN names[index]
                     ELSE IF i = index THEN names[1]
                     ELSE names[i]]
        ELSE names

Panic(what) == [panic |-> TRUE, path |-> <<>>, what |-> what]
Path(p) == [panic |-> FALSE, path |-> p, what |-> ""]

\* summary_raw_path without the lowercasing of line 484.
summary_raw_path_keeps_case(crate_name) ==
    IF Len(crate_name) = 0 THEN Panic("unreachable")
    ELSE IF Len(crate_name) = 1 THEN Path(<<"1", "/">> \o crate_name)
    ELSE IF Len(crate_name) = 2 THEN Path(<<"2", "/">> \o crate_name)
    ELSE IF Len(crate_name) = 3
         THEN Path(<<"3", "/">> \o SubSeq(crate_name, 1, 1) \o <<"/">> \o crate_name)
    ELSE Path(SubSeq(crate_name, 1, 2) \o <<"/">> \o SubSeq(crate_name, 3, 4)
              \o <<"/">> \o crate_name)

summary_raw_path(crate_name) ==
    LET name == ToAsciiLowercase(crate_name)
    IN  IF Len(name) = 0 THEN Panic("unreachable")
        ELSE IF Len(name) = 1 THEN Path(<<"1", "/">> \o name)
        ELSE IF Len(name) = 2 THEN Path(<<"2", "/">> \o name)
        ELSE IF Len(name) = 3
             THEN Path(<<"3", "/">> \o SubSeq(name, 1, 1) \o <<"/">> \o name)
        ELSE Path(SubSeq(name, 1, 2) \o <<"/">> \o SubSeq(name, 3, 4)
                  \o <<"/">> \o name)

(***************************************************************************)
(* The local mirror and the index tree                                     *)
(*                                                                         *)
(* What lies at a registry's cache path: nothing, something that is no git *)
(* repository, or a repository (bare, or a work tree with a .git           *)
(* directory) whose directory refs/remotes/origin/ may be missing, empty   *)
(* or hold entries, each entry a tracking ref of the index tree.           *)
(* An index tree maps a path to its entry: a blob with content or a tree.  *)
(* A blob's text is a sequence of pieces: a line feed, the JSON of one     *)
(* version record, or text that is no such JSON.                           *)
(***************************************************************************)

NoRec == CrateVersion(<<>>, Ver(0, 0, 0, <<>>, <<>>), FALSE)

LF == [kind |-> "lf", rec |-> NoRec]
Json(rec) == [kind |-> "json", rec |-> rec]
Garbage == [kind |-> "garbage", rec |-> NoRec]

Blob(utf8, text) == [kind |-> "blob", utf8 |-> utf8, text |-> text]
Subtree == [kind |-> "tree", utf8 |-> TRUE, text |-> <<>>]

EmptyTree == [p \in {} |-> Subtree]

AbsentMirror ==
    [exists |-> FALSE, repo |-> FALSE, layout |-> "none",
     originDir |-> FALSE, entries |-> {}, tree |-> EmptyTree]

\* A path that exists and is no repository.
NotARepo == [AbsentMirror EXCEPT !.exists = TRUE]

\* git2::Repository::init_opts with bare(true) on a path that did not exist: the
\* repository has refs/heads and refs/tags and no refs/remotes.
InitBare == [NotARepo EXCEPT !.repo = TRUE, !.layout = "bare"]

Mirror(layout, entries, tree) ==
    [exists |-> TRUE, repo |-> TRUE, layout |-> layout,
     originDir |-> TRUE, entries |-> entries, tree |-> tree]

\* Entry names that OsString::into_string rejects.
NonUnicodeNames == {"<non-unicode>"}

\* <registry_path>/.git/refs/remotes/origin/
CheckoutDir == "<registry>/.git/refs/remotes/origin/"

\* get_checkout_name: the outcomes it can have on a mirror; read_dir yields the
\* entries in no particular order, so any entry can be the first.
get_checkout_name(m) ==
    LET dotgit == m.layout = "worktree" /\ m.originDir
        bare == m.layout = "bare" /\ m.originDir
    IN  IF ~dotgit /\ ~bare THEN {Err("Io")}
        ELSE IF m.entries = {} THEN {ErrWith("MissingRegistraryCheckout", CheckoutDir)}
        ELSE {IF e \in NonUnicodeNames THEN Err("NonUnicodeGitPath") ELSE Ok(e) :
                 e \in m.entries}

\* str::lines: the text split at line feeds; a final line feed ends the last line
\* and opens no further one.
RECURSIVE Lines(_)
Lines(text) ==
    IF text = <<>> THEN <<>>
    ELSE IF \E i \in 1..Len(text) : text[i] = LF
         THEN LET i == CHOOSE i \in 1..Len(text) :
                           text[i] = LF /\ \A j \in 1..(i - 1) : text[j] # LF
              IN  <<SubSeq(text, 1, i - 1)>> \o Lines(SubSeq(text, i + 1, Len(text)))
         ELSE <<text>>

\* serde_json::from_str::<CrateVersion>(line): a record exactly when the line is
\* the JSON of one record; the empty line is an error (EOF while parsing).
ParseLine(line) ==
    IF Len(line) = 1 /\ line[1].kind = "json" THEN Ok(line[1].rec)
    ELSE Err("InvalidSummaryJson")

\* .collect::<Result<Vec<CrateVersion>>>(): the first error, else all records.
ParseLines(lines) ==
    IF \E i \in 1..Len(lines) : ~ParseLine(lines[i]).ok
    THEN Err("InvalidSummaryJson")
    ELSE Ok([i \in 1..Len(lines) |-> ParseLine(lines[i]).value])

\* Lines 308-317: decode the blob and parse its lines.
ParseBlob(file) ==
    IF ~file.utf8 THEN Err("InvalidSummaryJson")
    ELSE ParseLines(Lines(file.text))

Outcome(res, examined) == [res |-> res, examined |-> examined]

\* A loop that goes on to the next variant when the blob found does not parse.
RECURSIVE QueryLoopSkipsInvalid(_, _, _, _)
QueryLoopSkipsInvalid(crate_name, names, tree, i) ==
    IF i > Len(names) THEN Outcome(ErrWith("NoCrate", crate_name), names)
    ELSE LET path == summary_raw_path(names[i]).path
         IN  IF path \in DOMAIN tree /\ tree[path].kind = "blob"
                /\ ParseBlob(tree[path]).ok
             THEN Outcome(ParseBlob(tree[path]), SubSeq(names, 1, i))
             ELSE QueryLoopSkipsInvalid(crate_name, names, tree, i + 1)

\* Lines 303-319: the loop over the variants from the i-th on. The outcome holds
\* the result and the variants whose path was looked up in the tree.
RECURSIVE QueryLoop(_, _, _, _)
QueryLoop(crate_name, names, tree, i) ==
    IF i > Len(names) THEN Outcome(ErrWith("NoCrate", crate_name), names)
    ELSE LET path == summary_raw_path(names[i]).path
         IN  IF path \in DOMAIN tree
             THEN IF tree[path].kind = "blob"
                  THEN Outcome(ParseBlob(tree[path]), SubSeq(names, 1, i))
                  ELSE Outcome(Err("Git"), SubSeq(names, 1, i))
             ELSE QueryLoop(crate_name, names, tree, i + 1)

QueryTreeSkipsInvalid(crate_name, tree) ==
    QueryLoopSkipsInvalid(crate_name, FuzzyNames(crate_name), tree, 1)

\* Lines 297-319: the lookup in a resolved tree.
QueryTree(crate_name, tree) == QueryLoop(crate_name, FuzzyNames(crate_name), tree, 1)

\* fuzzy_query_registry_index: the outcomes it can have on the mirror m.
fuzzy_query_registry_index(crate_name, m) ==
    IF ~m.exists \/ ~m.repo THEN {Outcome(Err("Git"), <<>>)}
    ELSE {IF ~branch.ok THEN Outcome(branch, <<>>) ELSE QueryTree(crate_name, m.tree) :
             branch \in get_checkout_name(m)}

(***************************************************************************)
(* The two entry points                                                    *)
(***************************************************************************)

TestBreaking == <<"t","e","s","t","_","b","r","e","a","k","i","n","g">>
TestNonbreaking == <<"t","e","s","t","_","n","o","n","b","r","e","a","k","i","n","g">>

\* A call's result together with the kinds of I/O it did.
Done(res, io) == [res |-> res, io |-> io]

\* Lines 35-49: the result under CARGO_IS_TEST.
TestModeVersion(crate_name, flag_allow_prerelease) ==
    IF flag_allow_prerelease THEN crate_name \o <<"--PRERELEASE_VERSION_TEST">>
    ELSE IF crate_name = TestBreaking THEN <<"0", ".", "2", ".", "0">>
    ELSE IF crate_name = TestNonbreaking THEN <<"0", ".", "1", ".", "1">>
    ELSE crate_name \o <<"--CURRENT_VERSION_TEST">>

\* The I/O of fuzzy_query_registry_index, from how far it got on the mirror m.
QueryIo(m, o) ==
    {"open_repo"}
    \cup (IF m.exists /\ m.repo THEN {"read_dir"} ELSE {})
    \cup (IF o.examined # <<>> THEN {"find_reference", "tree_lookup"} ELSE {})

\* Lines 55-65: the lookup and the selection, once the name is known not empty.
LookupAndSelect(crate_name, flag_allow_prerelease, m) ==
         {LET io == {"env_var", "cache_path"} \cup QueryIo(m, o)
          IN  IF ~o.res.ok THEN Done(o.res, io)
              ELSE LET dep == read_latest_version(o.res.value, flag_allow_prerelease)
                   IN  IF dep.ok /\ dep.value.name # crate_name
                       THEN Done(dep, io \cup {"warn"})
                       ELSE Done(dep, io) :
             o \in fuzzy_query_registry_index(crate_name, m)}

\* A test mode that matches the special names before it looks at the flag.
get_latest_dependency_names_first(crate_name, flag_allow_prerelease, m, isTest) ==
    IF isTest
    THEN {Done(Ok(Dependency(crate_name,
                 IF crate_name = TestBreaking THEN <<"0", ".", "2", ".", "0">>
                 ELSE IF crate_name = TestNonbreaking THEN <<"0", ".", "1", ".", "1">>
                 ELSE IF flag_allow_prerelease
                      THEN crate_name \o <<"--PRERELEASE_VERSION_TEST">>
                 ELSE crate_name \o <<"--CURRENT_VERSION_TEST">>)),
               {"env_var"})}
    ELSE IF crate_name = <<>> THEN {Done(Err("EmptyCrateName"), {"env_var"})}
    ELSE LookupAndSelect(crate_name, flag_allow_prerelease, m)

\* A version that resolves the cache path and opens the repository before it
\* rejects the empty name.
get_latest_dependency_checks_late(crate_name, flag_allow_prerelease, m, isTest) ==
    IF isTest
    THEN {Done(Ok(Dependency(crate_name,
                             TestModeVersion(crate_name, flag_allow_prerelease))),
               {"env_var"})}
    ELSE IF crate_name = <<>>
         THEN IF ~m.exists \/ ~m.repo
              THEN {Done(Err("Git"), {"env_var", "cache_path", "open_repo"})}
              ELSE {Done(Err("EmptyCrateName"), {"env_var", "cache_path", "open_repo"})}
    ELSE LookupAndSelect(crate_name, flag_allow_prerelease, m)

\* get_latest_dependency: the outcomes it can have; m is what lies at the
\* registry's cache path, isTest whether CARGO_IS_TEST is set.
get_latest_dependency(crate_name, flag_allow_prerelease, m, isTest) ==
    IF isTest
    THEN {Done(Ok(Dependency(crate_name,
                             TestModeVersion(crate_name, flag_allow_prerelease))),
               {"env_var"})}
    ELSE IF crate_name = <<>> THEN {Done(Err("EmptyCrateName"), {"env_var"})}
    ELSE LookupAndSelect(crate_name, flag_allow_prerelease, m)

\* A call's result together with what it leaves at the cache path.
Synced(res, m) == [res |-> res, mirror |-> m]

\* fetch_with_cli: an error only when the git process cannot be started; the exit
\* status of git is not looked at, so on Ok the tracking ref either moved to the
\* remote's tree or stayed where it was.
fetch_with_cli(m, remoteTree, fault) ==
    IF fault = "spawn" THEN {Synced(Err("Io"), m)}
    ELSE {Synced(Ok(<<>>), m), Synced(Ok(<<>>), [m EXCEPT !.tree = remoteTree])}

\* update_registry_index: the outcomes it can have on what lies at the cache path.
update_registry_index(m, remoteTree, fault) ==
    IF ~m.exists
    THEN IF fault = "git" THEN {Synced(Err("Git"), m)}
         ELSE {Synced(Ok(<<>>), InitBare)}
    ELSE IF ~m.repo \/ fault = "git" THEN {Synced(Err("Git"), m)}
    ELSE UNION {IF ~branch.ok THEN {Synced(branch, m)}
                ELSE fetch_with_cli(m, remoteTree, fault) :
                   branch \in get_checkout_name(m)}

(***************************************************************************)
(* SpecFuzzy: the variant sequence of the lookup for every short name over *)
(* a letter and the two separators, and for names around the cap.          *)
(***************************************************************************)

MaxFuzzyLen == 4

\* How far past the cap the long names go.
MaxOverCap == 2

\* n separators: alternating, and the same with a letter before each.
SeparatorRun(n) == [i \in 1..n |-> IF i % 2 = 1 THEN "-" ELSE "_"]
SpacedRun(n) ==
    [i \in 1..(2 * n) |-> IF i % 2 = 1 THEN "x" ELSE IF i % 4 = 2 THEN "_" ELSE "-"]

FuzzyInputs ==
    SeqsUpTo({"a", "-", "_"}, MaxFuzzyLen)
    \cup {SeparatorRun(n) : n \in (WildcardCap - 1)..(WildcardCap + MaxOverCap)}
    \cup {SpacedRun(n) : n \in (WildcardCap - 1)..(WildcardCap + MaxOverCap)}

InitFuzzy ==
    /\ \E name \in FuzzyInputs :
          fz = [on |-> TRUE, name |-> name, names |-> <<>>, done |-> FALSE]
    /\ sel = Idle /\ sp = Idle /\ q = Idle
    /\ cargoIsTest = FALSE /\ mirror = Idle /\ remote = Idle
    /\ last = NoCall /\ prev = Summary(NoCall)

\* The lookup builds its variant sequence for the name.
GenFuzzyNames ==
    /\ ~fz.done
    /\ fz' = [fz EXCEPT !.names = FuzzyNames(fz.name), !.done = TRUE]
    /\ UNCHANGED <<sel, sp, q, cargoIsTest, mirror, remote, last, prev>>

NextFuzzy == GenFuzzyNames

SpecFuzzy == InitFuzzy /\ [][NextFuzzy]_vars

\* The separator positions of a name, all of them.
SeparatorPositions(name) == {i \in 1..Len(name) : name[i] = "-" \/ name[i] = "_"}

\* The separator positions that are varied: the WildcardCap lowest.
VariedPositions(name) ==
    {i \in SeparatorPositions(name) :
        Cardinality({j \in SeparatorPositions(name) : j < i}) < WildcardCap}

\* C6: with k separator positions (k <= 10) the variant sequence has 2^k pairwise
\* distinct entries, each equal to the input outside the separator positions and
\* holding a separator at each of them, the input first (for k = 0 just the
\* input); with more than 10 only the first 10 are varied: 1024 entries.
C6_FuzzyNames ==
    fz.on /\ fz.done =>
        LET name == fz.name
            names == fz.names
            varied == VariedPositions(name)
            k == Cardinality(SeparatorPositions(name))
        IN  /\ Len(names) = 2 ^ Min(k, 10)
            /\ k = 0 => names = <<name>>
            /\ names[1] = name
            /\ \A i, j \in 1..Len(names) : names[i] = names[j] => i = j
            /\ \A i \in 1..Len(names) :
                  /\ Len(names[i]) = Len(name)
                  /\ \A pos \in 1..Len(name) :
                        IF pos \in varied THEN names[i][pos] \in {"-", "_"}
                        ELSE names[i][pos] = name[pos]

\* A name with more than 10 separators, letters between them, that begins with
\* a letter and is not the variant the enumeration yields first.
C6_Witness ==
    /\ fz.on /\ fz.done
    /\ Cardinality(SeparatorPositions(fz.name)) > 10
    /\ Len(fz.names) = 1024
    /\ fz.name[1] = "x"
    /\ \E pos \in VariedPositions(fz.name) : fz.name[pos] = "-"

(***************************************************************************)
(* SpecPath: summary_raw_path on every name within the bounds.             *)
(***************************************************************************)

MaxNameLen == 5

PathInputs == SeqsUpTo({"a", "B", "c", "-"}, MaxNameLen)

InitPath ==
    /\ \E name \in PathInputs :
          sp = [on |-> TRUE, name |-> name, out |-> Path(<<>>), done |-> FALSE]
    /\ sel = Idle /\ fz = Idle /\ q = Idle
    /\ cargoIsTest = FALSE /\ mirror = Idle /\ remote = Idle
    /\ last = NoCall /\ prev = Summary(NoCall)

SummaryRawPath ==
    /\ ~sp.done
    /\ sp' = [sp EXCEPT !.out = summary_raw_path(sp.name), !.done = TRUE]
    /\ UNCHANGED <<sel, fz, q, cargoIsTest, mirror, remote, last, prev>>

NextPath == SummaryRawPath

SpecPath == InitPath /\ [][NextPath]_vars

\* The two cases of a letter; any other character alone.
CaseForms(c) ==
    IF \E l \in 1..26 : c \in {AsciiUpper[l], AsciiLower[l]}
    THEN LET l == CHOOSE l \in 1..26 : c \in {AsciiUpper[l], AsciiLower[l]}
         IN  {AsciiUpper[l], AsciiLower[l]}
    ELSE {c}

\* The names that differ from s at most in letter case.
RECURSIVE CaseVariants(_)
CaseVariants(s) ==
    IF s = <<>> THEN {<<>>}
    ELSE {<<c>> \o t : c \in CaseForms(Head(s)), t \in CaseVariants(Tail(s))}

\* C7: for a non-empty name, with n the lowercased name: length 1 gives 1/n,
\* length 2 gives 2/n, length 3 gives 3/<first of n>/n, length 4 or more gives
\* <1-2 of n>/<3-4 of n>/n; names that differ only in case get the same path.
C7_SummaryRawPath ==
    sp.on /\ sp.done /\ sp.name # <<>> =>
        LET n == [i \in 1..Len(sp.name) |->
                     IF sp.name[i] = "B" THEN "b" ELSE sp.name[i]]
            p == sp.out.path
        IN  /\ ~sp.out.panic
            /\ Len(n) = 1 => p = <<"1", "/", n[1]>>
            /\ Len(n) = 2 => p = <<"2", "/", n[1], n[2]>>
            /\ Len(n) = 3 => p = <<"3", "/", n[1], "/", n[1], n[2], n[3]>>
            /\ Len(n) >= 4 => p = <<n[1], n[2], "/", n[3], n[4], "/">> \o n
            /\ \A m \in CaseVariants(sp.name) : summary_raw_path(m) = sp.out

\* A name of five characters with an upper-case letter among its first four.
C7_Witness ==
    /\ sp.on /\ sp.done /\ Len(sp.name) = 5
    /\ sp.name[3] = "B"
    /\ sp.out.path[4] = "b"

(***************************************************************************)
(* SpecQuery: fuzzy_query_registry_index on a mirror whose tracking ref    *)
(* resolves, for every shape of the index tree at the variants' paths and  *)
(* every blob text within the bounds.                                      *)
(***************************************************************************)

MaxBlobLen == 3

QueryNames ==
    { <<"a", "b">>,
      <<"a", "-", "b">>,
      <<"a", "_", "b">>,
      <<"A", "-", "b">>,
      <<"a", "-", "b", "_", "c">> }

\* The pieces a blob's text is made of, before the crate's name is filled in.
PieceKinds == {"lf", "stable", "prerelease", "garbage"}

Piece(kind, name) ==
    IF kind = "lf" THEN LF
    ELSE IF kind = "stable"
         THEN Json(CrateVersion(name, Ver(0, 5, 0, <<>>, <<>>), FALSE))
    ELSE IF kind = "prerelease"
         THEN Json(CrateVersion(name, Ver(0, 6, 0, <<Alpha("alpha")>>, <<>>), FALSE))
    ELSE Garbage

\* The index file of a crate: its records carry the crate's name.
IndexFile(utf8, kinds, name) ==
    Blob(utf8, [i \in 1..Len(kinds) |-> Piece(kinds[i], name)])

\* The tree with, at the path of the i-th variant, what shape[i] says.
TreeOf(names, shape, utf8, kinds) ==
    LET at(path) == CHOOSE i \in 1..Len(names) : summary_raw_path(names[i]).path = path
    IN  [path \in {summary_raw_path(names[i]).path :
                      i \in {i \in 1..Len(names) : shape[i] # "none"}} |->
            IF shape[at(path)] = "tree" THEN Subtree
            ELSE IndexFile(utf8, kinds, ToAsciiLowercase(names[at(path)]))]

InitQuery ==
    /\ \E name \in QueryNames, kinds \in SeqsUpTo(PieceKinds, MaxBlobLen), utf8 \in BOOLEAN :
          \E shape \in [1..Len(FuzzyNames(name)) -> {"none", "tree", "blob"}] :
             /\ ~utf8 => kinds = <<"stable">>
             /\ q = [on |-> TRUE, name |-> name,
                     repo |-> Mirror("worktree", {"master"},
                                     TreeOf(FuzzyNames(name), shape, utf8, kinds)),
                     out |-> Outcome(NotCalled, <<>>)]
    /\ sel = Idle /\ fz = Idle /\ sp = Idle
    /\ cargoIsTest = FALSE /\ mirror = Idle /\ remote = Idle
    /\ last = NoCall /\ prev = Summary(NoCall)

FuzzyQueryRegistryIndex ==
    /\ ~Called(q.out.res)
    /\ \E o \in fuzzy_query_registry_index(q.name, q.repo) : q' = [q EXCEPT !.out = o]
    /\ UNCHANGED <<sel, fz, sp, cargoIsTest, mirror, remote, last, prev>>

NextQuery == FuzzyQueryRegistryIndex

SpecQuery == InitQuery /\ [][NextQuery]_vars

\* The variants of the requested name in lookup order, their paths, which of them
\* have an entry of the tree at their path (hits), which a blob, and the first hit
\* (0 when there is none).
QView ==
    LET names == FuzzyNames(q.name)
        paths == [i \in 1..Len(names) |-> summary_raw_path(names[i]).path]
        hits == {i \in 1..Len(names) : paths[i] \in DOMAIN q.repo.tree}
        first == IF hits = {} THEN 0 ELSE CHOOSE i \in hits : \A j \in hits : i <= j
    IN  [names |-> names, paths |-> paths, hits |-> hits, first |-> first,
         blobs |-> {i \in hits : q.repo.tree[paths[i]].kind = "blob"}]

\* The variants are looked up in order from the requested name on, and none after
\* the first whose path resolves.
QStopsAtFirstHit(v) ==
    /\ q.out.examined # <<>> /\ q.out.examined[1] = q.name
    /\ q.out.examined = SubSeq(v.names, 1, IF v.hits = {} THEN Len(v.names) ELSE v.first)

\* C4 as stated: variants in order, the requested name first, none examined after
\* the first hit; a first hit that is a blob gives that blob's parse result; the
\* lookup fails with NoCrate(requested name) exactly when no variant's path
\* resolves to a blob.
C4_NoCrateIffNoBlob ==
    q.on /\ Called(q.out.res) =>
        LET v == QView
        IN  /\ QStopsAtFirstHit(v)
            /\ v.first \in v.blobs => q.out.res = ParseBlob(q.repo.tree[v.paths[v.first]])
            /\ q.out.res = ErrWith("NoCrate", q.name) <=> v.blobs = {}

\* C4 as amended: variants in order, the requested name first, none examined after
\* the first hit; a first hit that is a blob gives that blob's parse result and one
\* that is no blob a git-layer error; the lookup fails with NoCrate(requested
\* name) exactly when no variant's path resolves to an entry of the tree.
C4_NoCrateIffNoEntry ==
    q.on /\ Called(q.out.res) =>
        LET v == QView
        IN  /\ QStopsAtFirstHit(v)
            /\ v.first \in v.blobs => q.out.res = ParseBlob(q.repo.tree[v.paths[v.first]])
            /\ v.first \in v.hits \ v.blobs => q.out.res = Err("Git")
            /\ q.out.res = ErrWith("NoCrate", q.name) <=> v.hits = {}

\* The requested name has no entry, the second variant is a blob that does not
\* parse, a later variant has a blob too, and the lookup stopped at the second.
C4_Witness ==
    /\ q.on /\ Called(q.out.res)
    /\ LET v == QView
       IN  Len(v.names) = 4 /\ v.first = 2 /\ v.blobs = {2, 3}
    /\ q.out.res = Err("InvalidSummaryJson")
    /\ Len(q.out.examined) = 2

\* The lines of a text that are not empty, in order.
NonEmptyLines(text) == SelectSeq(Lines(text), LAMBDA l : l # <<>>)

ValidLine(l) == Len(l) = 1 /\ l[1].kind = "json"

\* C10: for a resolved blob that is valid UTF-8 the empty lines are skipped: if
\* every non-empty line is a valid record the lookup succeeds with one record per
\* non-empty line, in line order; it fails with InvalidSummaryJson only when the
\* blob is not UTF-8 or some non-empty line is no valid record.
C10_EmptyLinesSkipped ==
    q.on /\ Called(q.out.res) /\ QView.first \in QView.blobs =>
        LET file == q.repo.tree[QView.paths[QView.first]]
            lines == NonEmptyLines(file.text)
            valid == \A i \in 1..Len(lines) : ValidLine(lines[i])
        IN  /\ file.utf8 /\ valid =>
                  q.out.res = Ok([i \in 1..Len(lines) |-> lines[i][1].rec])
            /\ q.out.res.err = "InvalidSummaryJson" => ~file.utf8 \/ ~valid

(***************************************************************************)
(* Spec: calls of update_registry_index and get_latest_dependency, one     *)
(* after the other, on two registries, from every state of their cache     *)
(* paths, with CARGO_IS_TEST set or not.                                   *)
(***************************************************************************)

Registries == {"crates-io", "alt"}

\* RegistryIndex::cache_path: the cache path is a function of the registry alone.
cache_path(registry) == registry

Faults == {"none", "git", "spawn"}

AB == <<"a", "-", "b">>
A_B == <<"a", "_", "b">>

RequestNames == {<<>>, AB, TestBreaking, TestNonbreaking}

\* The index at the remote: the crate a_b with a release and a later prerelease.
RemoteTree ==
    (summary_raw_path(A_B).path :>
        IndexFile(TRUE, <<"stable", "lf", "prerelease", "lf">>, A_B))

\* What can lie at a cache path when the program starts: nothing, a directory
\* that is no repository, a mirror made by cargo (one or two tracking refs), a
\* mirror whose refs were packed (the directory is empty), one with an entry whose
\* name is not Unicode.
InitialMirrors ==
    { AbsentMirror,
      NotARepo,
      Mirror("worktree", {"master"}, EmptyTree),
      Mirror("worktree", {"HEAD", "master"}, RemoteTree),
      Mirror("bare", {}, EmptyTree),
      Mirror("bare", {"<non-unicode>"}, EmptyTree) }

Init ==
    /\ cargoIsTest \in BOOLEAN
    /\ mirror \in [Registries -> InitialMirrors]
    /\ mirror["alt"] \in {AbsentMirror, Mirror("worktree", {"master"}, EmptyTree)}
    /\ remote = [r \in Registries |-> RemoteTree]
    /\ last = NoCall /\ prev = Summary(NoCall)
    /\ sel = Idle /\ fz = Idle /\ sp = Idle /\ q = Idle

UpdateRegistryIndex(registry, fault) ==
    /\ \E o \in update_registry_index(mirror[cache_path(registry)], remote[registry], fault) :
          /\ mirror' = [mirror EXCEPT ![cache_path(registry)] = o.mirror]
          /\ last' = [op |-> "update_registry_index", registry |-> registry,
                      name |-> <<>>, flag |-> FALSE, fault |-> fault,
                      io |-> {"cache_path"}, res |-> o.res]
    /\ prev' = Summary(last)
    /\ UNCHANGED <<sel, fz, sp, q, cargoIsTest, remote>>

GetLatestDependency(crate_name, flag_allow_prerelease, registry) ==
    /\ \E o \in get_latest_dependency(crate_name, flag_allow_prerelease,
                                       mirror[cache_path(registry)], cargoIsTest) :
          last' = [op |-> "get_latest_dependency", registry |-> registry,
                   name |-> crate_name, flag |-> flag_allow_prerelease, fault |-> "none",
                   io |-> o.io, res |-> o.res]
    /\ prev' = Summary(last)
    /\ UNCHANGED <<sel, fz, sp, q, cargoIsTest, mirror, remote>>

Next ==
    \/ \E registry \in Registries, fault \in Faults : UpdateRegistryIndex(registry, fault)
    \/ \E crate_name \in RequestNames, flag \in BOOLEAN, registry \in Registries :
          GetLatestDependency(crate_name, flag, registry)

Spec == Init /\ [][Next]_vars

\* Whether a mirror holds a tracking ref under refs/remotes/origin/.
HasTrackingRef(m) == m.exists /\ m.repo /\ m.originDir /\ m.entries # {}

\* C2: a call of update_registry_index in which neither the git layer nor the
\* fetch fails, made right after a successful call on the same registry, succeeds.
C2_SecondSyncSucceeds ==
    /\ prev.op = "update_registry_index" /\ prev.ok
    /\ last.op = "update_registry_index" /\ last.registry = prev.registry
    /\ last.fault = "none"
    => last.res.ok

\* C3: after update_registry_index returned successfully for a registry, the
\* mirror at its cache path holds a tracking ref under refs/remotes/origin/, and a
\* get_latest_dependency run next against that registry does not fail with
\* MissingRegistraryCheckout or an I/O error.
C3_MirrorReadableAfterSync ==
    /\ last.op = "update_registry_index" /\ last.res.ok
          => HasTrackingRef(mirror[cache_path(last.registry)])
    /\ /\ prev.op = "update_registry_index" /\ prev.ok
       /\ last.op = "get_latest_dependency" /\ last.registry = prev.registry
       /\ ~cargoIsTest /\ last.name # <<>>
       => last.res.err \notin {"MissingRegistraryCheckout", "Io"}

\* The I/O that touches the registry: resolving the cache path, the repository.
RegistryIo == {"cache_path", "open_repo", "read_dir", "find_reference", "tree_lookup"}

\* C5 as stated: get_latest_dependency with the empty name fails with
\* EmptyCrateName in every process environment, before any registry I/O.
C5_EmptyNameRejected ==
    last.op = "get_latest_dependency" /\ last.name = <<>> =>
        /\ last.res = Err("EmptyCrateName")
        /\ last.io \cap RegistryIo = {}

\* C5 as amended: get_latest_dependency with the empty name, in a process
\* environment where CARGO_IS_TEST is not set, fails with EmptyCrateName before
\* any registry I/O.
C5_EmptyNameRejectedOutsideTestMode ==
    last.op = "get_latest_dependency" /\ last.name = <<>> /\ ~cargoIsTest =>
        /\ last.res = Err("EmptyCrateName")
        /\ last.io \cap RegistryIo = {}

\* The empty name was requested, outside test mode, of a registry whose mirror is
\* an openable repository with a tracking ref.
C5_Witness ==
    /\ last.op = "get_latest_dependency" /\ last.name = <<>> /\ ~cargoIsTest
    /\ HasTrackingRef(mirror[cache_path(last.registry)])
    /\ last.res = Err("EmptyCrateName")

\* C8 as stated: under CARGO_IS_TEST the call does no registry I/O, succeeds, and
\* returns the requested name with version 0.2.0 for test_breaking, 0.1.1 for
\* test_nonbreaking, and for any other name <name>--PRERELEASE_VERSION_TEST when
\* allow_prerelease is set and <name>--CURRENT_VERSION_TEST otherwise.
C8_TestModeSpecialNamesFixed ==
    last.op = "get_latest_dependency" /\ cargoIsTest =>
        /\ last.io \cap RegistryIo = {}
        /\ last.res.ok
        /\ last.res.value.name = last.name
        /\ last.res.value.version =
              IF last.name = TestBreaking THEN <<"0", ".", "2", ".", "0">>
              ELSE IF last.name = TestNonbreaking THEN <<"0", ".", "1", ".", "1">>
              ELSE IF last.flag THEN last.name \o <<"--PRERELEASE_VERSION_TEST">>
              ELSE last.name \o <<"--CURRENT_VERSION_TEST">>

\* C8 as amended: under CARGO_IS_TEST the call does no registry I/O, succeeds, and
\* returns the requested name with version <name>--PRERELEASE_VERSION_TEST when
\* allow_prerelease is set, whatever the name, and otherwise 0.2.0 for
\* test_breaking, 0.1.1 for test_nonbreaking and <name>--CURRENT_VERSION_TEST for
\* any other name.
C8_TestModeFlagFirst ==
    last.op = "get_latest_dependency" /\ cargoIsTest =>
        /\ last.io \cap RegistryIo = {}
        /\ last.res.ok
        /\ last.res.value.name = last.name
        /\ last.res.value.version =
              IF last.flag THEN last.name \o <<"--PRERELEASE_VERSION_TEST">>
              ELSE IF last.name = TestBreaking THEN <<"0", ".", "2", ".", "0">>
              ELSE IF last.name = TestNonbreaking THEN <<"0", ".", "1", ".", "1">>
              ELSE last.name \o <<"--CURRENT_VERSION_TEST">>

\* test_nonbreaking was requested under CARGO_IS_TEST with allow_prerelease set,
\* of a registry that has no mirror.
C8_Witness ==
    /\ last.op = "get_latest_dependency" /\ cargoIsTest
    /\ last.name = TestNonbreaking /\ last.flag
    /\ ~mirror[cache_path(last.registry)].exists
    /\ last.res.ok

====
